---- MODULE Spec2Model ----
(***************************************************************************)
(* Model of COS.py: the 2009 US federal income tax calculator              *)
(* (calculate_tax) and its interactive front end (main).                   *)
(*                                                                         *)
(* Number representation.  Python floats are modelled as records           *)
(* [k, v]: k = "fin" with an integer payload v, k = "nan", or k = "inf"    *)
(* (positive infinity).  Amounts of money (incomes, bracket limits,        *)
(* taxable_amount) carry v in cents; tax values, which are amounts         *)
(* multiplied by a rate, carry v in hundredths of a cent, and rates are    *)
(* held in percent, so that amount * rate is exact.  The rounding of       *)
(* binary64 arithmetic is not modelled: finite arithmetic is exact decimal *)
(* arithmetic.  Bracket limits are Python ints in whole dollars; None is   *)
(* the integer -1.                                                         *)
(***************************************************************************)
EXTENDS Integers, Sequences, FiniteSets, TLC

VARIABLES
    pc,              \* position of the program
    filing_status,   \* calculate_tax: argument
    taxable_income,  \* calculate_tax: argument
    brackets,        \* calculate_tax: the local bracket table (line 17)
    tax_brackets,    \* calculate_tax: brackets[filing_status] (line 57)
    loc,             \* calculate_tax: tax, previous_limit, taxable_amount, loop position
    result,          \* calculate_tax: the returned value
    caller,          \* who called calculate_tax: "direct" or "main"
    status,          \* main: accepted filing status
    income,          \* main: accepted income
    tax_amount,      \* main: tax_amount (line 112)
    attempts,        \* main: iterations of the input loop started
    calls,           \* main: number of invocations of calculate_tax
    out,             \* main: the error messages printed, in order
    bd               \* main: locals of the breakdown loop and the segments printed

vars == <<pc, filing_status, taxable_income, brackets, tax_brackets, loc, result,
          caller, status, income, tax_amount, attempts, calls, out, bd>>

calcVars == <<filing_status, taxable_income, brackets, tax_brackets, loc, result>>
mainVars == <<status, income, tax_amount, attempts, calls, out, bd>>

----------------------------------------------------------------------------
(* Bounds *)

\* incomes within Delta cents of every point of interest are tried
Delta == 1
\* iterations of main's input loop that may be started
MaxAttempts == 2

----------------------------------------------------------------------------
(* Floats *)

Fin(v) == [k |-> "fin", v |-> v]
NaN == [k |-> "nan", v |-> 0]
Inf == [k |-> "inf", v |-> 0]
\* a local that has not been assigned
Unset == [k |-> "unset", v |-> 0]

\* a whole-dollar int as an amount in cents
Money(dollars) == Fin(dollars * 100)

\* a <= b
FLe(a, b) ==
    IF a.k = "nan" \/ b.k = "nan" THEN FALSE
    ELSE IF a.k = "inf" THEN b.k = "inf"
    ELSE IF b.k = "inf" THEN TRUE
    ELSE a.v <= b.v

\* a < b
FLt(a, b) ==
    IF a.k = "nan" \/ b.k = "nan" THEN FALSE
    ELSE IF b.k = "inf" THEN a.k # "inf"
    ELSE IF a.k = "inf" THEN FALSE
    ELSE a.v < b.v

\* a > b
FGt(a, b) == FLt(b, a)

\* a == b
FEq(a, b) == a.k # "nan" /\ b.k # "nan" /\ a = b

\* a - b
FSub(a, b) ==
    IF a.k = "nan" \/ b.k = "nan" THEN NaN
    ELSE IF a.k = "inf" THEN (IF b.k = "inf" THEN NaN ELSE Inf)
    ELSE IF b.k = "inf" THEN NaN   \* -inf is not represented; never arises
    ELSE Fin(a.v - b.v)

\* a + b
FAdd(a, b) ==
    IF a.k = "nan" \/ b.k = "nan" THEN NaN
    ELSE IF a.k = "inf" \/ b.k = "inf" THEN Inf
    ELSE Fin(a.v + b.v)

\* amount * rate, rate a positive percentage; the result is in hundredths of a cent
FMulRate(a, rate) ==
    IF a.k = "fin" THEN Fin(a.v * rate) ELSE a

\* min(a, b) as Python computes it: b if b < a else a
FMin(a, b) == IF FLt(b, a) THEN b ELSE a

----------------------------------------------------------------------------
(* calculate_tax *)

None == -1

\* Brackets with two limits of the Single list exchanged
Brackets_Swapped ==
    [s \in 0..3 |->
        CASE s = 0 -> << <<8350, 10>>, <<82250, 15>>, <<33950, 25>>,
                         <<171550, 28>>, <<372950, 33>>, <<None, 35>> >>
          [] s = 1 -> << <<16700, 10>>, <<67900, 15>>, <<137050, 25>>,
                         <<208850, 28>>, <<372950, 33>>, <<None, 35>> >>
          [] s = 2 -> << <<8350, 10>>, <<33950, 15>>, <<68525, 25>>,
                         <<104425, 28>>, <<186475, 33>>, <<None, 35>> >>
          [] s = 3 -> << <<11950, 10>>, <<45500, 15>>, <<117450, 25>>,
                         <<190200, 28>>, <<372950, 33>>, <<None, 35>> >>]

\* the bracket table: filing status -> sequence of <<upper_limit, rate in percent>>
Brackets ==
    [s \in 0..3 |->
        CASE s = 0 -> << <<8350, 10>>, <<33950, 15>>, <<82250, 25>>,
                         <<171550, 28>>, <<372950, 33>>, <<None, 35>> >>
          [] s = 1 -> << <<16700, 10>>, <<67900, 15>>, <<137050, 25>>,
                         <<208850, 28>>, <<372950, 33>>, <<None, 35>> >>
          [] s = 2 -> << <<8350, 10>>, <<33950, 15>>, <<68525, 25>>,
                         <<104425, 28>>, <<186475, 33>>, <<None, 35>> >>
          [] s = 3 -> << <<11950, 10>>, <<45500, 15>>, <<117450, 25>>,
                         <<190200, 28>>, <<372950, 33>>, <<None, 35>> >>]

\* the table before the call has built it
NoTable == [s \in {} |-> <<>>]

\* Lookup falling back to the first list, as brackets.get(key, brackets[0])
Lookup_Default(table, key) ==
    IF key \in DOMAIN table
    THEN [raised |-> "none", value |-> table[key]]
    ELSE [raised |-> "none", value |-> table[0]]

\* brackets[filing_status]: the bracket list, or KeyError
Lookup(table, key) ==
    IF key \in DOMAIN table
    THEN [raised |-> "none", value |-> table[key]]
    ELSE [raised |-> "KeyError", value |-> <<>>]

\* the locals at the start of the loop (lines 59-60); i counts the brackets
\* the for loop has fetched, brk is set once a break has been executed
StartLocals ==
    [tax |-> Fin(0), previous_limit |-> 0, taxable_amount |-> Unset,
     i |-> 0, brk |-> FALSE]

\* LoopBody with "tax =" in place of "tax +="
LoopBody_Overwrite(f, bracket, x) ==
    LET upper_limit == bracket[1]
        rate == bracket[2]
    IN  IF FLe(x, Money(f.previous_limit))
        THEN [f EXCEPT !.brk = TRUE]
        ELSE IF upper_limit = None \/ FLe(x, Money(upper_limit))
        THEN LET amount == FSub(x, Money(f.previous_limit))
             IN  [f EXCEPT !.taxable_amount = amount,
                           !.tax = FMulRate(amount, rate),
                           !.brk = TRUE]
        ELSE LET amount == Money(upper_limit - f.previous_limit)
             IN  [f EXCEPT !.taxable_amount = amount,
                           !.tax = FMulRate(amount, rate),
                           !.previous_limit = upper_limit]

\* LoopBody without the first test (lines 64-65)
LoopBody_NoEarlyBreak(f, bracket, x) ==
    LET upper_limit == bracket[1]
        rate == bracket[2]
    IN  IF upper_limit = None \/ FLe(x, Money(upper_limit))
        THEN LET amount == FSub(x, Money(f.previous_limit))
             IN  [f EXCEPT !.taxable_amount = amount,
                           !.tax = FAdd(f.tax, FMulRate(amount, rate)),
                           !.brk = TRUE]
        ELSE LET amount == Money(upper_limit - f.previous_limit)
             IN  [f EXCEPT !.taxable_amount = amount,
                           !.tax = FAdd(f.tax, FMulRate(amount, rate)),
                           !.previous_limit = upper_limit]

\* LoopBody that does not advance previous_limit (line 76 missing)
LoopBody_NoAdvance(f, bracket, x) ==
    LET upper_limit == bracket[1]
        rate == bracket[2]
    IN  IF FLe(x, Money(f.previous_limit))
        THEN [f EXCEPT !.brk = TRUE]
        ELSE IF upper_limit = None \/ FLe(x, Money(upper_limit))
        THEN LET amount == FSub(x, Money(f.previous_limit))
             IN  [f EXCEPT !.taxable_amount = amount,
                           !.tax = FAdd(f.tax, FMulRate(amount, rate)),
                           !.brk = TRUE]
        ELSE LET amount == Money(upper_limit - f.previous_limit)
             IN  [f EXCEPT !.taxable_amount = amount,
                           !.tax = FAdd(f.tax, FMulRate(amount, rate))]

\* one execution of the loop body (lines 64-76) on the bracket <<upper_limit, rate>>
LoopBody(f, bracket, x) ==
    LET upper_limit == bracket[1]
        rate == bracket[2]
    IN  IF FLe(x, Money(f.previous_limit))
        THEN [f EXCEPT !.brk = TRUE]
        ELSE IF upper_limit = None \/ FLe(x, Money(upper_limit))
        THEN LET amount == FSub(x, Money(f.previous_limit))
             IN  [f EXCEPT !.taxable_amount = amount,
                           !.tax = FAdd(f.tax, FMulRate(amount, rate)),
                           !.brk = TRUE]
        ELSE LET amount == Money(upper_limit - f.previous_limit)
             IN  [f EXCEPT !.taxable_amount = amount,
                           !.tax = FAdd(f.tax, FMulRate(amount, rate)),
                           !.previous_limit = upper_limit]

\* the for loop has ended: a break was executed or the list is exhausted
LoopEnded(f, list) == f.brk \/ f.i >= Len(list)

\* the for loop fetches the next bracket and executes the body on it
LoopStep(f, list, x) ==
    LoopBody([f EXCEPT !.i = f.i + 1], list[f.i + 1], x)

RECURSIVE Walk(_, _, _)
\* the for loop run to its end (lines 63-76)
Walk(f, list, x) ==
    IF LoopEnded(f, list) THEN f ELSE Walk(LoopStep(f, list, x), list, x)

\* calculate_tax as a function of its arguments: the exception raised, or the tax
calculate_tax(fs, x) ==
    LET l == Lookup(Brackets, fs)
    IN  IF l.raised # "none"
        THEN [raised |-> l.raised, value |-> NaN]
        ELSE [raised |-> "none", value |-> Walk(StartLocals, l.value, x).tax]

----------------------------------------------------------------------------
(* Inputs *)

\* every finite upper limit of the table, in dollars
Limits ==
    {Brackets[s][j][1] : s \in 0..3, j \in 1..5}

\* dollar amounts around which incomes are tried: 0, the limits, the
\* breakdown threshold, and the amounts of the documented scenarios
Points == Limits \cup {0, 10000, 100000, 400000}

IncomeCents == {p * 100 + d : p \in Points, d \in (0 - Delta)..Delta}

IncomeArgs == {Fin(c) : c \in IncomeCents} \cup {NaN, Inf}

StatusArgs == (0 - 1)..4

----------------------------------------------------------------------------
(* calculate_tax, step by step *)

MainIdle ==
    /\ status = None
    /\ income = Unset
    /\ tax_amount = Unset
    /\ attempts = 0
    /\ calls = 0
    /\ out = <<>>
    /\ bd = [tax_brackets |-> <<>>, remaining_income |-> Unset,
             previous_limit |-> Fin(0), i |-> 0, brk |-> FALSE, segs |-> <<>>]

\* a caller is about to call calculate_tax(filing_status, taxable_income)
Init ==
    /\ pc = "call"
    /\ caller = "direct"
    /\ filing_status \in StatusArgs
    /\ taxable_income \in IncomeArgs
    /\ brackets = NoTable
    /\ tax_brackets = <<>>
    /\ loc = StartLocals
    /\ result = Unset
    /\ MainIdle

\* lines 17-60: build the table, look the status up, initialise the locals
Call ==
    /\ pc = "call"
    /\ brackets' = Brackets
    /\ LET l == Lookup(brackets', filing_status)
       IN  IF l.raised # "none"
           THEN /\ pc' = "raised"
                /\ UNCHANGED <<tax_brackets, loc>>
           ELSE /\ pc' = "loop"
                /\ tax_brackets' = l.value
                /\ loc' = StartLocals
    /\ UNCHANGED <<filing_status, taxable_income, result, caller>>
    /\ UNCHANGED mainVars

\* lines 63-76: one iteration of the for loop
Iterate ==
    /\ pc = "loop"
    /\ ~LoopEnded(loc, tax_brackets)
    /\ loc' = LoopStep(loc, tax_brackets, taxable_income)
    /\ UNCHANGED <<pc, filing_status, taxable_income, brackets, tax_brackets,
                   result, caller>>
    /\ UNCHANGED mainVars

\* line 78: return tax; main stores it in tax_amount (line 112)
Return ==
    /\ pc = "loop"
    /\ LoopEnded(loc, tax_brackets)
    /\ result' = loc.tax
    /\ IF caller = "main"
       THEN /\ pc' = "results"
            /\ tax_amount' = loc.tax
       ELSE /\ pc' = "returned"
            /\ UNCHANGED tax_amount
    /\ UNCHANGED <<filing_status, taxable_income, brackets, tax_brackets, loc,
                   caller, status, income, attempts, calls, out, bd>>

Next == Call \/ Iterate \/ Return

Spec == Init /\ [][Next]_vars

----------------------------------------------------------------------------
(* main *)

\* MainBrackets with one limit of the second copy mistyped (68525 as 68252)
MainBrackets_Typo ==
    [s \in 0..3 |->
        CASE s = 0 -> << <<8350, 10>>, <<33950, 15>>, <<82250, 25>>,
                         <<171550, 28>>, <<372950, 33>>, <<None, 35>> >>
          [] s = 1 -> << <<16700, 10>>, <<67900, 15>>, <<137050, 25>>,
                         <<208850, 28>>, <<372950, 33>>, <<None, 35>> >>
          [] s = 2 -> << <<8350, 10>>, <<33950, 15>>, <<68252, 25>>,
                         <<104425, 28>>, <<186475, 33>>, <<None, 35>> >>
          [] s = 3 -> << <<11950, 10>>, <<45500, 15>>, <<117450, 25>>,
                         <<190200, 28>>, <<372950, 33>>, <<None, 35>> >>]

\* main's own copy of the bracket table (lines 129-134)
MainBrackets ==
    [s \in 0..3 |->
        CASE s = 0 -> << <<8350, 10>>, <<33950, 15>>, <<82250, 25>>,
                         <<171550, 28>>, <<372950, 33>>, <<None, 35>> >>
          [] s = 1 -> << <<16700, 10>>, <<67900, 15>>, <<137050, 25>>,
                         <<208850, 28>>, <<372950, 33>>, <<None, 35>> >>
          [] s = 2 -> << <<8350, 10>>, <<33950, 15>>, <<68525, 25>>,
                         <<104425, 28>>, <<186475, 33>>, <<None, 35>> >>
          [] s = 3 -> << <<11950, 10>>, <<45500, 15>>, <<117450, 25>>,
                         <<190200, 28>>, <<372950, 33>>, <<None, 35>> >>]

\* what the user may type at the status prompt: an integer literal, or text
\* that int() rejects
StatusEntries ==
    {[t |-> "text", v |-> 0]} \cup {[t |-> "int", v |-> n] : n \in StatusArgs}

\* what the user may type at the income prompt: a decimal literal (v in
\* cents), "nan", "inf", or text that float() rejects
IncomeEntries ==
    {[t |-> "text", v |-> 0], [t |-> "nan", v |-> 0], [t |-> "inf", v |-> 0]}
        \cup {[t |-> "num", v |-> c] : c \in IncomeCents}

\* int(input(...))
ParseInt(e) ==
    IF e.t = "int"
    THEN [raised |-> "none", value |-> e.v]
    ELSE [raised |-> "ValueError", value |-> None]

\* float(input(...))
ParseFloat(e) ==
    CASE e.t = "num" -> [raised |-> "none", value |-> Fin(e.v)]
      [] e.t = "nan" -> [raised |-> "none", value |-> NaN]
      [] e.t = "inf" -> [raised |-> "none", value |-> Inf]
      [] OTHER -> [raised |-> "ValueError", value |-> Unset]

\* the locals of the breakdown before the loop (lines 136-138)
StartBreakdown(st, inc) ==
    [tax_brackets |-> MainBrackets[st], remaining_income |-> inc,
     previous_limit |-> Fin(0), i |-> 0, brk |-> FALSE, segs |-> <<>>]

NoBreakdown ==
    [tax_brackets |-> <<>>, remaining_income |-> Unset,
     previous_limit |-> Fin(0), i |-> 0, brk |-> FALSE, segs |-> <<>>]

\* one execution of the body of the breakdown loop (lines 141-153); a printed
\* line is recorded as the segment [from, to, rate, bracket_tax] of the values
\* handed to the format string (their rendering to two decimals is not
\* modelled)
BreakdownBody(b, bracket) ==
    LET upper_limit == bracket[1]
        rate == bracket[2]
    IN  IF FLe(b.remaining_income, Fin(0))
        THEN [b EXCEPT !.brk = TRUE]
        ELSE LET bracket_amount ==
                     IF upper_limit = None
                     THEN b.remaining_income
                     ELSE FMin(b.remaining_income,
                               FSub(Money(upper_limit), b.previous_limit))
             IN  IF FGt(bracket_amount, Fin(0))
                 THEN [b EXCEPT
                         !.segs = Append(@,
                             [from |-> b.previous_limit,
                              to |-> FAdd(b.previous_limit, bracket_amount),
                              rate |-> rate,
                              bracket_tax |-> FMulRate(bracket_amount, rate)]),
                         !.previous_limit = FAdd(@, bracket_amount),
                         !.remaining_income = FSub(@, bracket_amount)]
                 ELSE b

\* main is at the top of its input loop for the first time; locals not yet
\* assigned are shown as None or Unset
MainInit ==
    /\ pc = "prompt_status"
    /\ caller = "main"
    /\ filing_status = None
    /\ taxable_income = Unset
    /\ brackets = NoTable
    /\ tax_brackets = <<>>
    /\ loc = StartLocals
    /\ result = Unset
    /\ status = None
    /\ income = Unset
    /\ tax_amount = Unset
    /\ attempts = 1
    /\ calls = 0
    /\ out = <<>>
    /\ bd = NoBreakdown

\* lines 96-99: the status prompt.  An error message restarts the loop, which
\* is allowed while fewer than MaxAttempts iterations have been started.
ReadStatus ==
    /\ pc = "prompt_status"
    /\ \E e \in StatusEntries :
         LET p == ParseInt(e)
         IN  IF p.raised # "none"
             THEN /\ attempts < MaxAttempts
                  /\ out' = Append(out, "Error: Please enter valid numbers.")
                  /\ attempts' = attempts + 1
                  /\ UNCHANGED <<pc, status>>
             ELSE /\ status' = p.value
                  /\ IF status' \notin {0, 1, 2, 3}
                     THEN /\ attempts < MaxAttempts
                          /\ out' = Append(out,
                                 "Error: Please enter a number between 0 and 3.")
                          /\ attempts' = attempts + 1
                          /\ UNCHANGED pc
                     ELSE /\ pc' = "prompt_income"
                          /\ UNCHANGED <<out, attempts>>
    /\ UNCHANGED <<income, tax_amount, calls, bd, caller>>
    /\ UNCHANGED calcVars

\* lines 101-106: the income prompt
ReadIncome ==
    /\ pc = "prompt_income"
    /\ \E e \in IncomeEntries :
         LET p == ParseFloat(e)
         IN  IF p.raised # "none"
             THEN /\ attempts < MaxAttempts
                  /\ out' = Append(out, "Error: Please enter valid numbers.")
                  /\ attempts' = attempts + 1
                  /\ pc' = "prompt_status"
                  /\ UNCHANGED income
             ELSE /\ income' = p.value
                  /\ IF FLt(income', Fin(0))
                     THEN /\ attempts < MaxAttempts
                          /\ out' = Append(out, "Error: Income cannot be negative.")
                          /\ attempts' = attempts + 1
                          /\ pc' = "prompt_status"
                     ELSE /\ pc' = "invoke"
                          /\ UNCHANGED <<out, attempts>>
    /\ UNCHANGED <<status, tax_amount, calls, bd, caller>>
    /\ UNCHANGED calcVars

\* line 112: main calls calculate_tax(status, income)
Invoke ==
    /\ pc = "invoke"
    /\ filing_status' = status
    /\ taxable_income' = income
    /\ calls' = calls + 1
    /\ pc' = "call"
    /\ UNCHANGED <<brackets, tax_brackets, loc, result, caller, status, income,
                   tax_amount, attempts, out, bd>>

\* lines 115-138: print the results; incomes up to 100000 get the breakdown
PrintResults ==
    /\ pc = "results"
    /\ IF FLe(income, Money(100000))
       THEN /\ pc' = "breakdown"
            /\ bd' = StartBreakdown(status, income)
       ELSE /\ pc' = "exit"
            /\ UNCHANGED bd
    /\ UNCHANGED <<caller, status, income, tax_amount, attempts, calls, out>>
    /\ UNCHANGED calcVars

\* lines 140-153: one iteration of the breakdown loop
BreakdownIterate ==
    /\ pc = "breakdown"
    /\ ~LoopEnded(bd, bd.tax_brackets)
    /\ bd' = BreakdownBody([bd EXCEPT !.i = bd.i + 1], bd.tax_brackets[bd.i + 1])
    /\ UNCHANGED <<pc, caller, status, income, tax_amount, attempts, calls, out>>
    /\ UNCHANGED calcVars

\* the breakdown loop has ended; main returns
BreakdownEnd ==
    /\ pc = "breakdown"
    /\ LoopEnded(bd, bd.tax_brackets)
    /\ pc' = "exit"
    /\ UNCHANGED <<caller, status, income, tax_amount, attempts, calls, out, bd>>
    /\ UNCHANGED calcVars

MainNext ==
    \/ ReadStatus
    \/ ReadIncome
    \/ Invoke
    \/ Call
    \/ Iterate
    \/ Return
    \/ PrintResults
    \/ BreakdownIterate
    \/ BreakdownEnd

MainSpec == MainInit /\ [][MainNext]_vars

----------------------------------------------------------------------------
(* Properties *)

Returned == pc = "returned"

\* the lower bound of the k-th bracket of status s, in dollars
Lower(s, k) == IF k = 1 THEN 0 ELSE Brackets[s][k - 1][1]

\* C1: for a fixed valid status the tax is never negative and is
\* non-decreasing in the income: a call that returns for an income b >= 0
\* returns at least the tax of every income a with 0 <= a <= b.
C1_Monotone ==
    Returned /\ FLe(Fin(0), taxable_income) =>
        /\ FLe(Fin(0), result)
        /\ \A a \in IncomeArgs :
             FLe(Fin(0), a) /\ FLe(a, taxable_income) =>
                 FLe(calculate_tax(filing_status, a).value, result)

\* a call has returned for an income inside the third bracket or higher
C1_Witness ==
    Returned /\ taxable_income.k = "fin" /\ loc.i >= 3 /\ FGt(result, Fin(0))

RECURSIVE BoundarySum(_, _)
\* the sum over i = 1..k of (b_i - b_{i-1}) * rate_i, in hundredths of a cent
BoundarySum(s, k) ==
    IF k = 0 THEN 0
    ELSE BoundarySum(s, k - 1)
             + (Brackets[s][k][1] - Lower(s, k)) * 100 * Brackets[s][k][2]

\* C2: an income exactly on the k-th finite boundary of its status is taxed
\* as the sum of the k full brackets up to it, and the walk stops in bracket
\* k: the next bracket is never fetched.
C2_Boundary ==
    \A k \in 1..5 :
        Returned /\ taxable_income = Money(Brackets[filing_status][k][1]) =>
            /\ result = Fin(BoundarySum(filing_status, k))
            /\ loc.i = k

\* a call has returned for an income on the fourth boundary of its status
C2_Witness ==
    Returned /\ taxable_income = Money(Brackets[filing_status][4][1]) /\ loc.i = 4

\* C3: with income 0 the call returns exactly 0 and the walk stops at the
\* first bracket without taxing any amount.
C3_Zero ==
    Returned /\ taxable_income = Fin(0) =>
        /\ result = Fin(0)
        /\ loc.i = 1
        /\ loc.brk
        /\ loc.taxable_amount = Unset

\* a call with income 0 has returned
C3_Witness == Returned /\ taxable_income = Fin(0) /\ filing_status = 3

\* C4: a call with a filing status outside {0,1,2,3} raises: it never walks
\* any bracket list and never returns a tax.
C4_UnknownStatus ==
    filing_status \notin {0, 1, 2, 3} /\ caller = "direct" =>
        /\ pc \in {"call", "raised"}
        /\ tax_brackets = <<>>
        /\ result = Unset

\* the call with status 4 has raised KeyError
C4_Witness == pc = "raised" /\ filing_status = 4 /\ brackets # NoTable

\* the highest finite boundary of each status, as the documentation gives it
C5_B(s) == IF s = 2 THEN 186475 ELSE 372950

\* C5: above the highest finite boundary B only the excess is taxed at 35%:
\* tax(income) = tax(B) + (income - B) * 0.35.
C5_TopBracket ==
    Returned /\ FGt(taxable_income, Money(C5_B(filing_status))) =>
        FEq(result,
            FAdd(calculate_tax(filing_status, Money(C5_B(filing_status))).value,
                 FMulRate(FSub(taxable_income, Money(C5_B(filing_status))), 35)))

\* a call has returned for a finite income above the highest boundary of status 2
C5_Witness ==
    Returned /\ filing_status = 2 /\ taxable_income.k = "fin"
        /\ FGt(taxable_income, Money(186475)) /\ loc.i = 6

\* C6: the documented values for Single: 8350 -> 835.00, 10000 -> 1082.50,
\* 400000 -> 8350*0.10 + 25600*0.15 + 48300*0.25 + 89300*0.28 + 201400*0.33
\* + 27050*0.35 (tax values are in hundredths of a cent).
C6_Scenarios ==
    Returned /\ filing_status = 0 =>
        /\ taxable_income = Money(8350) => result = Fin(8350000)
        /\ taxable_income = Money(10000) => result = Fin(10825000)
        /\ taxable_income = Money(400000) =>
               result = Fin(100 * (8350 * 10 + 25600 * 15 + 48300 * 25
                                   + 89300 * 28 + 201400 * 33 + 27050 * 35))

\* the Single call with income 400000 has returned
C6_Witness ==
    Returned /\ filing_status = 0 /\ taxable_income = Money(400000)

\* a bracket list: finite limits strictly increasing, rates non-decreasing
\* and in (0, 1], exactly one None limit, in the last entry
C7_WellFormed(list) ==
    /\ Len(list) >= 1
    /\ list[Len(list)][1] = None
    /\ \A j \in 1..(Len(list) - 1) : list[j][1] # None
    /\ \A j \in 1..(Len(list) - 2) : list[j][1] < list[j + 1][1]
    /\ \A j \in 1..(Len(list) - 1) : list[j][2] <= list[j + 1][2]
    /\ \A j \in 1..Len(list) : list[j][2] > 0 /\ list[j][2] <= 100

\* C7: the table a call builds has a well-formed bracket list for each of
\* the four statuses, and no step of the call modifies it.
C7_Table ==
    /\ [](brackets # NoTable =>
            /\ DOMAIN brackets = 0..3
            /\ \A s \in 0..3 : C7_WellFormed(brackets[s])
            /\ pc = "loop" => tax_brackets = brackets[filing_status])
    /\ [][brackets # NoTable => brackets' = brackets]_vars

\* a call has walked all six brackets of the table it built
C7_Witness == Returned /\ brackets # NoTable /\ loc.i = 6

\* C8 as stated: a call with a negative income and a valid status does not
\* return a tax (it raises instead).
C8_Original ==
    FLt(taxable_income, Fin(0)) /\ filing_status \in {0, 1, 2, 3} => ~Returned

\* C8, amended: a call with a negative income and a valid status raises
\* nothing; the walk stops at the first bracket without taxing any amount and
\* the call returns 0, the tax of income 0.
C8_NegativeReturnsZero ==
    FLt(taxable_income, Fin(0)) /\ filing_status \in {0, 1, 2, 3}
            /\ caller = "direct" =>
        /\ pc \in {"call", "loop", "returned"}
        /\ Returned =>
               /\ result = Fin(0)
               /\ FEq(result, calculate_tax(filing_status, Fin(0)).value)
               /\ loc.i = 1
               /\ loc.taxable_amount = Unset

\* a call with a negative income has returned
C8_Witness == Returned /\ FLt(taxable_income, Fin(0)) /\ filing_status = 1

\* C9: main invokes calculate_tax at most once, and only with a status in
\* {0,1,2,3} and an income that is a number >= 0; every error message sends
\* the loop back to the status prompt.
C9_ValidatedCall ==
    /\ [](/\ calls <= 1
          /\ calls >= 1 => status \in {0, 1, 2, 3} /\ FLe(Fin(0), income)
          /\ pc \in {"call", "loop"} =>
                 filing_status = status /\ taxable_income = income)
    /\ [][Len(out') > Len(out) =>
              /\ pc \in {"prompt_status", "prompt_income"}
              /\ pc' = "prompt_status"
              /\ calls' = 0]_vars

RECURSIVE SumTax(_)
\* the sum of the bracket_tax of the segments, added in the order printed
SumTax(segs) ==
    IF segs = <<>> THEN Fin(0)
    ELSE FAdd(SumTax(SubSeq(segs, 1, Len(segs) - 1)), segs[Len(segs)].bracket_tax)

\* C10: for 0 <= income <= 100000 the bracket_tax amounts of the breakdown
\* sum to the tax calculate_tax returned; the segments are contiguous from 0
\* to the income; segment j is bracket j of the calculator's table, and there
\* is one segment for each bracket the income reaches and no other.
C10_Breakdown ==
    pc = "exit" /\ FLe(Fin(0), income) /\ FLe(income, Money(100000)) =>
        LET segs == bd.segs
            n == Len(segs)
        IN  /\ FEq(SumTax(segs), tax_amount)
            /\ FEq(tax_amount, calculate_tax(status, income).value)
            /\ \A j \in 1..n :
                 /\ segs[j].from = Money(Lower(status, j))
                 /\ segs[j].rate = Brackets[status][j][2]
                 /\ FLt(segs[j].from, segs[j].to)
                 /\ FLt(segs[j].from, income)
                 /\ j < n => segs[j].to = segs[j + 1].from
                 /\ j = n => segs[j].to = income
            /\ n = Cardinality({j \in 1..6 : FLt(Money(Lower(status, j)), income)})

\* main has printed a breakdown of three segments
C10_Witness ==
    pc = "exit" /\ Len(bd.segs) = 3 /\ FLe(income, Money(100000))

====
